---- MODULE Spec2Model ----
(***************************************************************************)
(* ftp-paperless-bridge (src/src/main.rs): an FTP storage backend whose    *)
(* put stages the inbound stream in a temporary file, submits it to the    *)
(* Paperless API and polls the returned task until it ends or a deadline   *)
(* passes; plus the single-credential authenticator and the stubbed        *)
(* storage operations.                                                     *)
(*                                                                         *)
(* Every await point of put is one action, so that concurrent puts         *)
(* interleave where the tokio tasks can.  The temporary directory is a     *)
(* map from file names to inodes; an open handle keeps its inode after the *)
(* name is unlinked.                                                       *)
(***************************************************************************)
EXTENDS Integers, Sequences, FiniteSets, TLC

(***************************** bounds **************************************)
\* how much later than its interval one sleep may end, in seconds.  The
\* clock is read only after the lookup that follows a sleep, so the time
\* that lookup takes counts as part of this delay.
MaxOversleep == 1
\* largest resume offset the protocol engine passes
MaxStartPos == 1
\* the longest payload is MaxBlocks full copy buffers plus one byte
MaxBlocks == 1

(************************* program constants *******************************)
\* Duration::from_secs(1), the poll interval
SleepSecs == 1
\* Duration::from_secs(10), the poll deadline
DeadlineSecs == 10
\* BufReader/BufWriter::with_capacity(4096, ..)
BufCapacity == 4096

(***************************** domains *************************************)
Uploads == {1, 2}
NoName == "<none>"
\* destination base names the protocol engine can pass (path.file_name())
FileNames == {"scan.pdf"}
NameHints == FileNames \cup {NoName}
\* TempFile::new() draws a fresh uuid per call
UuidName(u) == IF u = 1 THEN "uuid-1" ELSE "uuid-2"
TempNames == FileNames \cup {UuidName(u) : u \in Uploads}
StartPositions == 0..MaxStartPos
InputLengths == {0, 1, MaxBlocks * BufCapacity + 1}

NoInode == "<none>"
\* the inode a create makes is fresh: one per creating upload
InodeOf(u) == IF u = 1 THEN "ino-1" ELSE "ino-2"
Inodes == {InodeOf(u) : u \in Uploads}
NoTask == "<none>"
NoPath == "<none>"
TaskIdOf(u) == IF u = 1 THEN "task-1" ELSE "task-2"

\* the values of the "status" field of a task, "RETRY" standing for any
\* value put does not name
StatusValues == {"PENDING", "STARTED", "SUCCESS", "FAILURE", "REVOKED", "RETRY"}
\* an array element without a "status" field
NoStatusField == "<no status field>"
TaskElements == StatusValues \cup {NoStatusField}
\* what GET /api/tasks/?task_id= can answer: a transport or HTTP-status
\* failure, or a JSON array of task objects (empty, of one task, or of two)
NoResponse == [http_ok |-> FALSE, tasks |-> <<>>]
TaskArrays ==
    {<<>>} \cup {<<e>> : e \in TaskElements}
           \cup {<<"SUCCESS", NoStatusField>>, <<"PENDING", "SUCCESS">>}
Responses == {NoResponse} \cup {[http_ok |-> TRUE, tasks |-> t] : t \in TaskArrays}

VARIABLES
    pc,            \* per upload: where put stands
    req,           \* per upload: put's arguments (path's file name, start_pos, stream length)
    handle,        \* per upload: the inode its TempFile has open, or NoInode
    tmp_path,      \* per upload: the name of its TempFile in the temp directory
    dir,           \* temp directory: name -> inode or NoInode
    inode,         \* inode -> [len, writers]
    bytes_copied,  \* per upload: result of tokio::io::copy
    submits,       \* per upload: calls of PaperlessClient::upload
    submitted,     \* per upload: what upload read from the staged path
    task_id,       \* per upload: the task uuid upload returned
    elapsed,       \* per upload: now.elapsed() in seconds
    polls,         \* per upload: calls of PaperlessClient::task_status
    resp,          \* per upload: the last status response
    warned,        \* per upload: "Failed to get task status" was logged
    result,        \* per upload: "none", "Ok", "Err" or "panic"
    value,         \* per upload: the u64 inside Ok
    cause,         \* per upload: the error put returned
    authenticator, \* UsernamePasswordAuthenticator {username, password}
    login,         \* the last authenticate call and its result
    op,            \* the last stubbed storage call and how it ended
    main_pc,       \* where main stands
    health,        \* what the startup health_check returned
    server,        \* the spawned ftp_server.listen task
    listener,      \* the FTP listening socket
    signal,        \* the signal delivered to the process, if any
    exit           \* how the process ended

put_vars == <<pc, req, handle, tmp_path, dir, inode, bytes_copied, submits,
              submitted, task_id, elapsed, polls, resp, warned, result, value,
              cause>>
session_vars == <<authenticator, login, op>>
main_vars == <<main_pc, health, server, listener, signal, exit>>
vars == <<put_vars, session_vars, main_vars>>

Min(a, b) == IF a < b THEN a ELSE b
Max(a, b) == IF a > b THEN a ELSE b

(************************ PaperlessClient **********************************)
\* task_status: send, error_for_status, json::<Vec<TaskStatus>>, then the
\* first element or the PENDING default.  TaskStatus has one required
\* field, status: String, so the decode of the array fails as a whole when
\* any element lacks it.
task_status(r) ==
    IF ~r.http_ok THEN [ok |-> FALSE, status |-> ""]
    ELSE IF \E i \in 1..Len(r.tasks) : r.tasks[i] = NoStatusField
         THEN [ok |-> FALSE, status |-> ""]
    ELSE IF Len(r.tasks) = 0 THEN [ok |-> TRUE, status |-> "PENDING"]
    ELSE [ok |-> TRUE, status |-> r.tasks[1]]

\* upload: multipart::Form::file opens the staged file by its path (an
\* io error when the name is gone), then POSTs it; sent says whether the
\* request and its status were fine.
upload(d, path, sent) ==
    IF d[path] = NoInode THEN [ok |-> FALSE, read |-> NoInode]
    ELSE IF ~sent THEN [ok |-> FALSE, read |-> d[path]]
    ELSE [ok |-> TRUE, read |-> d[path]]

(************************** staging helpers ********************************)
\* TempFile::new_with_name(file_name) for a path with a file name,
\* TempFile::new() otherwise
temp_name(u, hint) == IF hint # NoName THEN hint ELSE UuidName(u)

\* variant: the last, partly filled buffer is never flushed to the file
RECURSIVE copy_unflushed(_, _, _)
copy_unflushed(remaining, amt, chunks) ==
    IF remaining < BufCapacity \/ chunks = 0 THEN amt
    ELSE copy_unflushed(remaining - BufCapacity, amt + BufCapacity, chunks - 1)

\* tokio::io::copy through the 4096-byte buffers: the bytes written once
\* at most `chunks` buffers were moved
RECURSIVE copy(_, _, _)
copy(remaining, amt, chunks) ==
    IF remaining = 0 \/ chunks = 0 THEN amt
    ELSE LET n == Min(remaining, BufCapacity)
         IN  copy(remaining - n, amt + n, chunks - 1)
\* buffers needed for a stream of len bytes
NChunks(len) == (len + BufCapacity - 1) \div BufCapacity

\* variant: the file is not pre-sized
set_len_skipped(file, size) == file

\* tempfile.set_len(start_pos): the file is truncated or extended to size
set_len(file, size) == [file EXCEPT !.len = size]

\* variant: the staged file is kept (persisted, or its owner forgotten)
drop_tempfile_keeps(d, path, h) == d

\* Drop of the TempFile (owned by writer, a local of put): the handle is
\* closed and the file name removed, errors ignored.  Nothing to drop
\* before the TempFile exists.
drop_tempfile(d, path, h) ==
    IF h = NoInode THEN d ELSE [d EXCEPT ![path] = NoInode]

(********************* variants of the poll loop ***************************)
\* variant: running out of time breaks out of the loop like SUCCESS does
poll_outcome_timeout_breaks(st, el) ==
    IF ~st.ok THEN
        IF el > DeadlineSecs
        THEN [pc |-> "done", result |-> "Err", cause |-> "lookup"]
        ELSE [pc |-> "sleep", result |-> "none", cause |-> "none"]
    ELSE IF st.status \in {"FAILURE", "REVOKED"}
        THEN [pc |-> "done", result |-> "Err", cause |-> "task_failed"]
    ELSE IF st.status = "SUCCESS" \/ el > DeadlineSecs
        THEN [pc |-> "done", result |-> "Ok", cause |-> "none"]
    ELSE [pc |-> "sleep", result |-> "none", cause |-> "none"]

\* variant: a lookup error is returned at once, whatever the clock says
poll_outcome_error_fatal(st, el) ==
    IF ~st.ok THEN [pc |-> "done", result |-> "Err", cause |-> "lookup"]
    ELSE IF st.status = "SUCCESS"
        THEN [pc |-> "done", result |-> "Ok", cause |-> "none"]
    ELSE IF st.status \in {"FAILURE", "REVOKED"}
        THEN [pc |-> "done", result |-> "Err", cause |-> "task_failed"]
    ELSE IF el > DeadlineSecs
        THEN [pc |-> "done", result |-> "Err", cause |-> "timeout"]
    ELSE [pc |-> "sleep", result |-> "none", cause |-> "none"]

\* variant: the deadline test is >= instead of >
poll_outcome_deadline_reached(st, el) ==
    IF ~st.ok THEN
        IF el > DeadlineSecs
        THEN [pc |-> "done", result |-> "Err", cause |-> "lookup"]
        ELSE [pc |-> "sleep", result |-> "none", cause |-> "none"]
    ELSE IF st.status = "SUCCESS"
        THEN [pc |-> "done", result |-> "Ok", cause |-> "none"]
    ELSE IF st.status \in {"FAILURE", "REVOKED"}
        THEN [pc |-> "done", result |-> "Err", cause |-> "task_failed"]
    ELSE IF el >= DeadlineSecs
        THEN [pc |-> "done", result |-> "Err", cause |-> "timeout"]
    ELSE [pc |-> "sleep", result |-> "none", cause |-> "none"]

\* variant: the deadline is tested before the status is looked at
poll_outcome_deadline_first(st, el) ==
    IF ~st.ok THEN
        IF el > DeadlineSecs
        THEN [pc |-> "done", result |-> "Err", cause |-> "lookup"]
        ELSE [pc |-> "sleep", result |-> "none", cause |-> "none"]
    ELSE IF el > DeadlineSecs
        THEN [pc |-> "done", result |-> "Err", cause |-> "timeout"]
    ELSE IF st.status = "SUCCESS"
        THEN [pc |-> "done", result |-> "Ok", cause |-> "none"]
    ELSE IF st.status \in {"FAILURE", "REVOKED"}
        THEN [pc |-> "done", result |-> "Err", cause |-> "task_failed"]
    ELSE [pc |-> "sleep", result |-> "none", cause |-> "none"]

\* variant: both deadline tests allow one more sleep interval
poll_outcome_deadline_late(st, el) ==
    IF ~st.ok THEN
        IF el > DeadlineSecs + SleepSecs
        THEN [pc |-> "done", result |-> "Err", cause |-> "lookup"]
        ELSE [pc |-> "sleep", result |-> "none", cause |-> "none"]
    ELSE IF st.status = "SUCCESS"
        THEN [pc |-> "done", result |-> "Ok", cause |-> "none"]
    ELSE IF st.status \in {"FAILURE", "REVOKED"}
        THEN [pc |-> "done", result |-> "Err", cause |-> "task_failed"]
    ELSE IF el > DeadlineSecs + SleepSecs
        THEN [pc |-> "done", result |-> "Err", cause |-> "timeout"]
    ELSE [pc |-> "sleep", result |-> "none", cause |-> "none"]

(*************************** the poll loop *********************************)
\* One iteration of put's loop after the sleep: st is task_status's
\* result, el is now.elapsed() in seconds.
poll_outcome(st, el) ==
    IF ~st.ok THEN
        IF el > DeadlineSecs
        THEN [pc |-> "done", result |-> "Err", cause |-> "lookup"]
        ELSE [pc |-> "sleep", result |-> "none", cause |-> "none"]
    ELSE IF st.status = "SUCCESS"
        THEN [pc |-> "done", result |-> "Ok", cause |-> "none"]
    ELSE IF st.status \in {"FAILURE", "REVOKED"}
        THEN [pc |-> "done", result |-> "Err", cause |-> "task_failed"]
    ELSE IF el > DeadlineSecs
        THEN [pc |-> "done", result |-> "Err", cause |-> "timeout"]
    ELSE [pc |-> "sleep", result |-> "none", cause |-> "none"]

\* variant: a failed submission is logged and the poll loop entered anyway
upload_outcome_polls_anyway(ok) ==
    [pc |-> "sleep", result |-> "none", cause |-> "none"]

\* variant: the first status lookup follows the submission without a sleep
upload_outcome_lookup_at_once(ok) ==
    IF ok THEN [pc |-> "task_status", result |-> "none", cause |-> "none"]
    ELSE [pc |-> "done", result |-> "Err", cause |-> "upload"]

\* put's match on upload's result: the task id starts the poll loop, an
\* error is returned at once
upload_outcome(ok) ==
    IF ok THEN [pc |-> "sleep", result |-> "none", cause |-> "none"]
    ELSE [pc |-> "done", result |-> "Err", cause |-> "upload"]

(****************************** put ****************************************)
\* put returns or unwinds: its locals are dropped, the TempFile among them
Leave(u, res, c) ==
    /\ pc' = [pc EXCEPT ![u] = "done"]
    /\ result' = [result EXCEPT ![u] = res]
    /\ cause' = [cause EXCEPT ![u] = c]
    /\ value' = [value EXCEPT ![u] = IF res = "Ok" THEN bytes_copied[u] ELSE @]
    /\ dir' = drop_tempfile(dir, tmp_path[u], handle[u])
    /\ handle' = [handle EXCEPT ![u] = NoInode]

\* the protocol engine, serving a connection it accepted on the listener,
\* calls put(user, input, path, start_pos)
put_request(u, hint, sp, len) ==
    /\ listener = "open"
    /\ pc[u] = "idle"
    /\ req' = [req EXCEPT ![u] = [name |-> hint, start_pos |-> sp, len |-> len]]
    /\ pc' = [pc EXCEPT ![u] = "tempfile"]
    /\ UNCHANGED session_vars
    /\ UNCHANGED main_vars
    /\ UNCHANGED <<handle, tmp_path, dir, inode, bytes_copied, submits, submitted,
                   task_id, elapsed, polls, resp, warned, result, value, cause>>

\* TempFile::new_with_name / TempFile::new, unwrapped.  The file is opened
\* with create: an existing file of that name is opened as it is.
put_tempfile(u) ==
    /\ pc[u] = "tempfile"
    /\ LET name == temp_name(u, req[u].name) IN
       \E created \in BOOLEAN :
          IF created
          THEN /\ tmp_path' = [tmp_path EXCEPT ![u] = name]
               /\ dir' = IF dir[name] = NoInode
                          THEN [dir EXCEPT ![name] = InodeOf(u)] ELSE dir
               /\ handle' = [handle EXCEPT ![u] = dir'[name]]
               /\ pc' = [pc EXCEPT ![u] = "set_len"]
               /\ UNCHANGED <<result, value, cause>>
          ELSE /\ Leave(u, "panic", "io")
               /\ UNCHANGED tmp_path
    /\ UNCHANGED session_vars
    /\ UNCHANGED main_vars
    /\ UNCHANGED <<req, inode, bytes_copied, submits, submitted, task_id,
                   elapsed, polls, resp, warned>>

\* tempfile.set_len(start_pos), unwrapped
put_set_len(u) ==
    /\ pc[u] = "set_len"
    /\ \E done \in BOOLEAN :
          IF done
          THEN /\ inode' = [inode EXCEPT ![handle[u]] = set_len(@, req[u].start_pos)]
               /\ pc' = [pc EXCEPT ![u] = "seek"]
               /\ UNCHANGED <<result, value, cause, dir, handle>>
          ELSE /\ Leave(u, "panic", "io")
               /\ UNCHANGED inode
    /\ UNCHANGED session_vars
    /\ UNCHANGED main_vars
    /\ UNCHANGED <<req, tmp_path, bytes_copied, submits, submitted, task_id,
                   elapsed, polls, resp, warned>>

\* tempfile.seek(SeekFrom::Start(start_pos)), unwrapped
put_seek(u) ==
    /\ pc[u] = "seek"
    /\ \E done \in BOOLEAN :
          IF done
          THEN /\ pc' = [pc EXCEPT ![u] = "copy"]
               /\ UNCHANGED <<result, value, cause, dir, handle>>
          ELSE Leave(u, "panic", "io")
    /\ UNCHANGED session_vars
    /\ UNCHANGED main_vars
    /\ UNCHANGED <<req, tmp_path, inode, bytes_copied, submits, submitted,
                   task_id, elapsed, polls, resp, warned>>

\* tokio::io::copy(&mut reader, &mut writer).await?  The copy either moves
\* the whole stream and flushes, or fails after some of the buffers.
put_copy(u) ==
    /\ pc[u] = "copy"
    /\ LET sp == req[u].start_pos
           len == req[u].len
           written(k) == copy(len, 0, k)
           grown(k) == [inode EXCEPT ![handle[u]] =
                          [len |-> IF written(k) = 0 THEN @.len
                                   ELSE Max(@.len, sp + written(k)),
                           writers |-> IF written(k) = 0 THEN @.writers
                                       ELSE @.writers \cup {u}]]
       IN \/ /\ inode' = grown(NChunks(len))
             /\ bytes_copied' = [bytes_copied EXCEPT ![u] = written(NChunks(len))]
             /\ pc' = [pc EXCEPT ![u] = "upload"]
             /\ UNCHANGED <<result, value, cause, dir, handle>>
          \/ \E k \in 0..NChunks(len) :
                /\ inode' = grown(k)
                /\ Leave(u, "Err", "io")
                /\ UNCHANGED bytes_copied
    /\ UNCHANGED session_vars
    /\ UNCHANGED main_vars
    /\ UNCHANGED <<req, tmp_path, submits, submitted, task_id, elapsed, polls, resp, warned>>

\* self.paperless_client.upload(&path); on Ok the deadline clock starts
put_upload(u) ==
    /\ pc[u] = "upload"
    /\ submits' = [submits EXCEPT ![u] = @ + 1]
    /\ \E sent \in BOOLEAN :
          LET r == upload(dir, tmp_path[u], sent)
              o == upload_outcome(r.ok)
          IN
          /\ submitted' = [submitted EXCEPT ![u] =
                IF r.read = NoInode THEN @
                ELSE [read |-> TRUE, len |-> inode[r.read].len,
                      writers |-> inode[r.read].writers]]
          /\ task_id' = [task_id EXCEPT ![u] = IF r.ok THEN TaskIdOf(u) ELSE @]
          /\ IF o.pc = "done"
             THEN Leave(u, o.result, o.cause)
             ELSE /\ pc' = [pc EXCEPT ![u] = o.pc]
                  /\ UNCHANGED <<result, value, cause, dir, handle>>
    /\ UNCHANGED session_vars
    /\ UNCHANGED main_vars
    /\ UNCHANGED <<req, tmp_path, inode, bytes_copied, elapsed, polls, resp, warned>>

\* sleep(Duration::from_secs(1)): at least the interval.  elapsed is what
\* now.elapsed() yields at the test that follows the coming lookup.
put_slept(u, d) ==
    /\ pc[u] = "sleep"
    /\ elapsed' = [elapsed EXCEPT ![u] = @ + d]
    /\ pc' = [pc EXCEPT ![u] = "task_status"]
    /\ UNCHANGED session_vars
    /\ UNCHANGED main_vars
    /\ UNCHANGED <<req, handle, tmp_path, dir, inode, bytes_copied, submits,
                   submitted, task_id, polls, resp, warned, result, value, cause>>

\* task_status(&task_id), the match on its status and the deadline test
put_lookup(u, r) ==
    /\ pc[u] = "task_status"
    /\ polls' = [polls EXCEPT ![u] = @ + 1]
    /\ LET o == poll_outcome(task_status(r), elapsed[u])
       IN /\ resp' = [resp EXCEPT ![u] = r]
          /\ warned' = [warned EXCEPT ![u] = @ \/ ~task_status(r).ok]
          /\ IF o.pc = "done"
             THEN Leave(u, o.result, o.cause)
             ELSE /\ pc' = [pc EXCEPT ![u] = o.pc]
                  /\ UNCHANGED <<result, value, cause, dir, handle>>
    /\ UNCHANGED session_vars
    /\ UNCHANGED main_vars
    /\ UNCHANGED <<req, tmp_path, inode, bytes_copied, submits, submitted, task_id,
                   elapsed>>

\* a sleep ends after its interval or up to MaxOversleep later
put_sleep(u) == \E d \in SleepSecs..(SleepSecs + MaxOversleep) : put_slept(u, d)

\* a sleep ends right after its interval
put_sleep_exact(u) == put_slept(u, SleepSecs)

\* the remote service answers with any of the responses
put_task_status(u) == \E r \in Responses : put_lookup(u, r)

\* the remote service answers with a well-formed one-task response or fails
PlainResponses ==
    {NoResponse} \cup {[http_ok |-> TRUE, tasks |-> <<e>>] : e \in {"PENDING", "SUCCESS", "FAILURE"}}
put_task_status_plain(u) == \E r \in PlainResponses : put_lookup(u, r)

\* a put with any destination, resume offset and payload
put_call(u) ==
    \E hint \in NameHints, sp \in StartPositions, len \in InputLengths :
        put_request(u, hint, sp, len)

\* a put of a one-byte payload from offset 0, with any destination
put_call_short(u) ==
    \E hint \in NameHints : put_request(u, hint, 0, 1)

put(u) ==
    \/ put_call_short(u)
    \/ put_tempfile(u)
    \/ put_set_len(u)
    \/ put_seek(u)
    \/ put_copy(u)
    \/ put_upload(u)
    \/ put_sleep_exact(u)
    \/ put_task_status_plain(u)

(************************** authentication ********************************)
Usernames == {"scanner", "guest"}
Passwords == {"s3cret", "letmein"}
\* Credentials.password is an Option<String>
NoPassword == "<none>"
PresentedPasswords == Passwords \cup {NoPassword}

\* UsernamePasswordAuthenticator::authenticate(&self, username, creds)
authenticate(self, username, creds) ==
    IF creds.password # NoPassword /\ creds.password # self.password
    THEN "BadPassword"
    ELSE IF username # self.username THEN "BadUser"
    ELSE "User"

NoLogin == [username |-> "", password |-> NoPassword, result |-> "none"]

\* the protocol engine authenticates a connection
authenticate_call ==
    /\ \E username \in Usernames, password \in PresentedPasswords :
          login' = [username |-> username, password |-> password,
                    result |-> authenticate(authenticator, username,
                                            [password |-> password])]
    /\ UNCHANGED <<authenticator, op>>
    /\ UNCHANGED put_vars
    /\ UNCHANGED main_vars

(********************** the stubbed storage operations *********************)
\* paths the protocol engine passes to the storage operations
StoragePaths == {"/", "/a.pdf", "/inbox"}
NoOp == [name |-> "none", path |-> "", to |-> "", start_pos |-> 0, outcome |-> "none"]

\* how each StorageBackend method ends: Ok(..), Err(..) or a panic
\* (unimplemented!())
metadata(path) == "Ok(Meta)"
list(path) == "Ok([])"
get(path, start_pos) == "panic"
del(path) == "panic"
mkd(path) == "panic"
rename(from, to) == "panic"
rmd(path) == "panic"
cwd(path) == "Ok(())"

\* what the protocol engine sees of one storage call; it calls the storage
\* operations on behalf of a logged-in user
Called(name, path, to, start_pos, outcome) ==
    [name |-> name, path |-> path, to |-> to, start_pos |-> start_pos,
     outcome |-> outcome]

metadata_call ==
    /\ login.result = "User"
    /\ \E path \in StoragePaths :
          op' = Called("metadata", path, "", 0, metadata(path))
    /\ UNCHANGED <<authenticator, login>>
    /\ UNCHANGED put_vars
    /\ UNCHANGED main_vars

list_call ==
    /\ login.result = "User"
    /\ \E path \in StoragePaths :
          op' = Called("list", path, "", 0, list(path))
    /\ UNCHANGED <<authenticator, login>>
    /\ UNCHANGED put_vars
    /\ UNCHANGED main_vars

get_call ==
    /\ login.result = "User"
    /\ \E path \in StoragePaths, start_pos \in StartPositions :
          op' = Called("get", path, "", start_pos, get(path, start_pos))
    /\ UNCHANGED <<authenticator, login>>
    /\ UNCHANGED put_vars
    /\ UNCHANGED main_vars

del_call ==
    /\ login.result = "User"
    /\ \E path \in StoragePaths :
          op' = Called("del", path, "", 0, del(path))
    /\ UNCHANGED <<authenticator, login>>
    /\ UNCHANGED put_vars
    /\ UNCHANGED main_vars

mkd_call ==
    /\ login.result = "User"
    /\ \E path \in StoragePaths :
          op' = Called("mkd", path, "", 0, mkd(path))
    /\ UNCHANGED <<authenticator, login>>
    /\ UNCHANGED put_vars
    /\ UNCHANGED main_vars

rename_call ==
    /\ login.result = "User"
    /\ \E from \in StoragePaths, to \in StoragePaths :
          op' = Called("rename", from, to, 0, rename(from, to))
    /\ UNCHANGED <<authenticator, login>>
    /\ UNCHANGED put_vars
    /\ UNCHANGED main_vars

rmd_call ==
    /\ login.result = "User"
    /\ \E path \in StoragePaths :
          op' = Called("rmd", path, "", 0, rmd(path))
    /\ UNCHANGED <<authenticator, login>>
    /\ UNCHANGED put_vars
    /\ UNCHANGED main_vars

cwd_call ==
    /\ login.result = "User"
    /\ \E path \in StoragePaths :
          op' = Called("cwd", path, "", 0, cwd(path))
    /\ UNCHANGED <<authenticator, login>>
    /\ UNCHANGED put_vars
    /\ UNCHANGED main_vars

(******************************** main *************************************)
\* what GET /api/ui_settings/ can answer at startup
HealthResponses == {"unreachable", "200", "401", "503"}
\* health_check: send, then error_for_status
health_check(r) == r = "200"

\* variant: a failed health check is logged and startup goes on
after_health_check_lenient(ok) == [main_pc |-> "build", exit |-> "running"]

\* main after health_check: an error is returned from main, which ends the
\* process with a failure exit code
after_health_check(ok) ==
    IF ok THEN [main_pc |-> "build", exit |-> "running"]
    ELSE [main_pc |-> "exited", exit |-> "failure"]

\* variant: the select has no SIGTERM branch
select_ready_sigint_only(srv, sig) == srv = "stopped" \/ sig = "SIGINT"

\* the select at the end of main: the listen task ended, or SIGINT, or
\* SIGTERM
select_ready(srv, sig) == srv = "stopped" \/ sig \in {"SIGINT", "SIGTERM"}

\* puts that stand at an await
InFlight(u) == pc[u] \notin {"idle", "done", "cancelled"}

\* color_eyre::install()?, CliArgs::parse(), the logger, the client
main_start ==
    /\ main_pc = "start"
    /\ \E parsed \in BOOLEAN :
          IF parsed
          THEN main_pc' = "health_check" /\ exit' = exit
          ELSE main_pc' = "exited" /\ exit' = "failure"
    /\ UNCHANGED <<health, server, listener, signal>>
    /\ UNCHANGED put_vars
    /\ UNCHANGED session_vars

\* paperless_client.health_check().await and the early return on Err
main_health_check ==
    /\ main_pc = "health_check"
    /\ \E r \in HealthResponses :
          LET o == after_health_check(health_check(r)) IN
          /\ health' = IF health_check(r) THEN "ok" ELSE "failed"
          /\ main_pc' = o.main_pc
          /\ exit' = o.exit
    /\ UNCHANGED <<server, listener, signal>>
    /\ UNCHANGED put_vars
    /\ UNCHANGED session_vars

\* the authenticator, the storage factory and ServerBuilder::build()?
main_build ==
    /\ main_pc = "build"
    /\ \E built \in BOOLEAN :
          IF built
          THEN main_pc' = "spawn" /\ exit' = exit
          ELSE main_pc' = "exited" /\ exit' = "failure"
    /\ UNCHANGED <<health, server, listener, signal>>
    /\ UNCHANGED put_vars
    /\ UNCHANGED session_vars

\* tokio::spawn of the listen task; main goes on to the select, whose
\* first poll installs the signal handlers
main_spawn ==
    /\ main_pc = "spawn"
    /\ main_pc' = "select"
    /\ server' = "spawned"
    /\ UNCHANGED <<health, listener, signal, exit>>
    /\ UNCHANGED put_vars
    /\ UNCHANGED session_vars

\* ftp_server.listen(args.listen): binds the socket, or fails and logs
server_listen ==
    /\ main_pc = "select"
    /\ server = "spawned"
    /\ \E bound \in BOOLEAN :
          IF bound
          THEN server' = "listening" /\ listener' = "open"
          ELSE server' = "stopped" /\ listener' = listener
    /\ UNCHANGED <<main_pc, health, signal, exit>>
    /\ UNCHANGED put_vars
    /\ UNCHANGED session_vars

\* ftp_server.listen returns an error while serving
server_error ==
    /\ main_pc = "select"
    /\ server = "listening"
    /\ server' = "stopped"
    /\ listener' = "closed"
    /\ UNCHANGED <<main_pc, health, signal, exit>>
    /\ UNCHANGED put_vars
    /\ UNCHANGED session_vars

\* SIGINT or SIGTERM is delivered.  Before the select installed the
\* handlers the default disposition ends the process.
deliver_signal ==
    /\ main_pc # "exited"
    /\ signal = "none"
    /\ \E sig \in {"SIGINT", "SIGTERM"} : signal' = sig
    /\ IF main_pc = "select"
       THEN UNCHANGED <<main_pc, exit>>
       ELSE main_pc' = "exited" /\ exit' = "killed"
    /\ UNCHANGED <<health, server, listener>>
    /\ UNCHANGED put_vars
    /\ UNCHANGED session_vars

\* a branch of the select completes: main logs, returns Ok(()) and the
\* runtime is dropped, which drops the listen task and every put at its
\* await, their TempFiles with them
main_select ==
    /\ main_pc = "select"
    /\ select_ready(server, signal)
    /\ main_pc' = "exited"
    /\ exit' = "success"
    /\ server' = "stopped"
    /\ listener' = IF listener = "open" THEN "closed" ELSE listener
    /\ pc' = [u \in Uploads |-> IF InFlight(u) THEN "cancelled" ELSE pc[u]]
    /\ handle' = [u \in Uploads |-> IF InFlight(u) THEN NoInode ELSE handle[u]]
    /\ dir' = LET h(u) == IF InFlight(u) THEN handle[u] ELSE NoInode
              IN  drop_tempfile(drop_tempfile(dir, tmp_path[1], h(1)), tmp_path[2], h(2))
    /\ UNCHANGED <<health, signal>>
    /\ UNCHANGED <<req, tmp_path, inode, bytes_copied, submits, submitted, task_id,
                   elapsed, polls, resp, warned, result, value, cause>>
    /\ UNCHANGED session_vars

(************************** specifications ********************************)
NoRequest == [name |-> NoName, start_pos |-> 0, len |-> 0]
NothingSubmitted == [read |-> FALSE, len |-> 0, writers |-> {}]

InitPut ==
    /\ pc = [u \in Uploads |-> "idle"]
    /\ req = [u \in Uploads |-> NoRequest]
    /\ handle = [u \in Uploads |-> NoInode]
    /\ tmp_path = [u \in Uploads |-> NoPath]
    /\ dir = [n \in TempNames |-> NoInode]
    /\ inode = [i \in Inodes |-> [len |-> 0, writers |-> {}]]
    /\ bytes_copied = [u \in Uploads |-> 0]
    /\ submits = [u \in Uploads |-> 0]
    /\ submitted = [u \in Uploads |-> NothingSubmitted]
    /\ task_id = [u \in Uploads |-> NoTask]
    /\ elapsed = [u \in Uploads |-> 0]
    /\ polls = [u \in Uploads |-> 0]
    /\ resp = [u \in Uploads |-> NoResponse]
    /\ warned = [u \in Uploads |-> FALSE]
    /\ result = [u \in Uploads |-> "none"]
    /\ value = [u \in Uploads |-> 0]
    /\ cause = [u \in Uploads |-> "none"]

\* main stands at its select and the server listens
Serving ==
    /\ main_pc = "select"
    /\ health = "ok"
    /\ server = "listening"
    /\ listener = "open"
    /\ signal = "none"
    /\ exit = "running"

\* one connection of the configured user, one upload
Init ==
    /\ InitPut
    /\ authenticator = [username |-> "scanner", password |-> "s3cret"]
    /\ login = [username |-> "scanner", password |-> "s3cret", result |-> "User"]
    /\ op = NoOp
    /\ Serving

Next ==
    \/ put_call(1)
    \/ put_tempfile(1)
    \/ put_set_len(1)
    \/ put_seek(1)
    \/ put_copy(1)
    \/ put_upload(1)
    \/ put_sleep(1)
    \/ put_task_status(1)

Spec == Init /\ [][Next]_vars

\* one upload whose timer fires and whose status lookups return: the
\* runtime wakes the sleeping task, the HTTP client answers or gives up
SpecFair ==
    /\ Init /\ [][Next]_vars
    /\ WF_vars(put_sleep(1))
    /\ WF_vars(put_task_status(1))

\* sessions: any configured credential pair, logins and storage calls
InitSession ==
    /\ InitPut
    /\ authenticator \in [username : Usernames, password : Passwords]
    /\ login = NoLogin
    /\ op = NoOp
    /\ Serving

NextSession ==
    \/ authenticate_call
    \/ metadata_call
    \/ list_call
    \/ get_call
    \/ del_call
    \/ mkd_call
    \/ rename_call
    \/ rmd_call
    \/ cwd_call

SpecSession == InitSession /\ [][NextSession]_vars

\* the process from its start: startup, the listen task, signals, and one
\* upload once the listener is open
InitMain ==
    /\ InitPut
    /\ authenticator = [username |-> "scanner", password |-> "s3cret"]
    /\ login = [username |-> "scanner", password |-> "s3cret", result |-> "User"]
    /\ op = NoOp
    /\ main_pc = "start"
    /\ health = "none"
    /\ server = "none"
    /\ listener = "none"
    /\ signal = "none"
    /\ exit = "running"

NextMain ==
    \/ main_start
    \/ main_health_check
    \/ main_build
    \/ main_spawn
    \/ server_listen
    \/ server_error
    \/ deliver_signal
    \/ main_select
    \/ put_call(1)
    \/ put_tempfile(1)
    \/ put_set_len(1)
    \/ put_seek(1)
    \/ put_copy(1)
    \/ put_upload(1)
    \/ put_sleep(1)
    \/ put_task_status(1)

\* two connections, each with one upload, running as independent tasks.
\* To keep the product of the two poll loops small the payloads are one
\* byte, the sleeps exact and the status responses well-formed: a subset
\* of the behaviours of two concurrent puts.
NextConcurrent == \E u \in Uploads : put(u)

SpecConcurrent == Init /\ [][NextConcurrent]_vars

\* the runtime polls main's select again once one of its branches is ready
SpecMain == InitMain /\ [][NextMain]_vars /\ WF_vars(main_select)

(***************************************************************************)
(*                              properties                                 *)
(***************************************************************************)
\* the decoded result of an upload's last status lookup
Decoded(u) == task_status(resp[u])
TerminalStatuses == {"SUCCESS", "FAILURE", "REVOKED"}
\* the loop has looked the status up and has acted on it (returned, or gone
\* back to the sleep): elapsed[u] is the clock value it tested
Tested(u) == polls[u] >= 1 /\ pc[u] \in {"sleep", "done"}
\* the terminal state of the upload bridge a finished put stands for; a put
\* that unwound from a panic returned nothing and stands for none of them
Terminal(u) ==
    IF pc[u] # "done" THEN "none"
    ELSE IF result[u] = "panic" THEN "Aborted"
    ELSE IF cause[u] = "none" THEN "Succeeded"
    ELSE IF cause[u] = "task_failed" THEN "RemoteFailed"
    ELSE IF cause[u] = "timeout" THEN "TimedOut"
    ELSE "LocalFailed"

C2_NoLeakedTempFile ==
    \A u \in Uploads :
        pc[u] = "done" =>
            /\ handle[u] = NoInode
            /\ tmp_path[u] # NoPath => dir[tmp_path[u]] = NoInode
            /\ \A n \in TempNames : dir[n] # InodeOf(u)
C2_Witness ==
    \E u \in Uploads :
        /\ pc[u] = "done" /\ cause[u] = "timeout"
        /\ tmp_path[u] # NoPath /\ inode[InodeOf(u)].len > 0

\* C3: a status lookup that failed while the tested clock had not passed the
\* deadline leaves the upload polling, and a put that logged such failures
\* and then saw SUCCESS returns Ok.
C3_LookupErrorAbsorbed ==
    \A u \in Uploads :
        /\ (Tested(u) /\ ~Decoded(u).ok /\ elapsed[u] <= DeadlineSecs) =>
              (pc[u] = "sleep" /\ result[u] = "none")
        /\ (Tested(u) /\ warned[u] /\ Decoded(u) = [ok |-> TRUE, status |-> "SUCCESS"]) =>
              (pc[u] = "done" /\ result[u] = "Ok")
C3_Witness ==
    \E u \in Uploads :
        /\ warned[u] /\ pc[u] = "done" /\ result[u] = "Ok"
        /\ elapsed[u] <= DeadlineSecs

\* C4: after a lookup that returned a non-terminal status the upload has
\* ended exactly when the tested clock exceeded the deadline, and then as an
\* Err with the timeout cause; a SUCCESS ends it with Ok.
C4_PendingUntilDeadline ==
    \A u \in Uploads :
        /\ (Tested(u) /\ Decoded(u).ok /\ Decoded(u).status \notin TerminalStatuses) =>
              /\ pc[u] = "done" <=> elapsed[u] > DeadlineSecs
              /\ pc[u] = "done" => (result[u] = "Err" /\ cause[u] = "timeout")
              /\ pc[u] = "sleep" => result[u] = "none"
        /\ (Tested(u) /\ Decoded(u) = [ok |-> TRUE, status |-> "SUCCESS"]) =>
              (pc[u] = "done" /\ result[u] = "Ok")
        /\ cause[u] = "timeout" => elapsed[u] > DeadlineSecs
C4_Witness ==
    \E u \in Uploads :
        /\ pc[u] = "done" /\ cause[u] = "timeout" /\ ~warned[u]
        /\ polls[u] >= DeadlineSecs
        /\ Decoded(u).status \in {"PENDING", "STARTED"}

\* C5: a lookup that returned SUCCESS ends the upload with Ok, one that
\* returned FAILURE or REVOKED ends it with the task-failed Err, whatever
\* the clock; and a put that has ended issues no further lookup.
C5_TerminalStatusDecides ==
    /\ [](\A u \in Uploads :
            (Tested(u) /\ Decoded(u).ok) =>
                /\ Decoded(u).status = "SUCCESS" =>
                      (pc[u] = "done" /\ result[u] = "Ok" /\ cause[u] = "none")
                /\ Decoded(u).status \in {"FAILURE", "REVOKED"} =>
                      (pc[u] = "done" /\ result[u] = "Err" /\ cause[u] = "task_failed"))
    /\ [][\A u \in Uploads : pc[u] = "done" => polls'[u] = polls[u]]_vars
C5_Witness ==
    \E u \in Uploads :
        /\ pc[u] = "done" /\ result[u] = "Ok"
        /\ elapsed[u] > DeadlineSecs

\* a response the claim wants read as Pending: an empty array, a first task
\* with a status put does not name, a first task without a status field
PendingLike(r) ==
    r.http_ok /\ (r.tasks = <<>> \/ r.tasks[1] \in {"RETRY", NoStatusField})
\* C6: a Pending-like response is never a lookup error and never ends the
\* upload with the lookup or the task-failed cause.
C6_PendingLikeIsPending ==
    \A u \in Uploads :
        (polls[u] >= 1 /\ PendingLike(resp[u])) =>
            (Decoded(u).ok /\ cause[u] \notin {"lookup", "task_failed"})

\* C7: an I/O error while staging makes put return Err, without a panic
\* and without a submission.
C7_StagingErrorReturned ==
    \A u \in Uploads :
        (pc[u] = "done" /\ cause[u] = "io") =>
            (result[u] = "Err" /\ submits[u] = 0)

\* C8: once upload was called and gave no task id, put has returned Err
\* with upload's error: it called upload once, slept never and looked no
\* status up.
C8_SubmitErrorReturnedAtOnce ==
    \A u \in Uploads :
        /\ submits[u] <= 1
        /\ (submits[u] >= 1 /\ task_id[u] = NoTask) =>
              /\ pc[u] = "done" /\ result[u] = "Err" /\ cause[u] = "upload"
              /\ polls[u] = 0 /\ elapsed[u] = 0
C8_Witness ==
    \E u \in Uploads :
        /\ submits[u] = 1 /\ task_id[u] = NoTask /\ cause[u] = "upload"
        /\ submitted[u].read

\* C9: get, del, rename, mkd and rmd each return an error to the protocol
\* engine and never panic.
C9_UnsupportedReturnsError ==
    op.name \in {"get", "del", "rename", "mkd", "rmd"} => op.outcome = "Err"

\* C10: authenticate with a presented secret grants the principal for the
\* configured pair, answers BadUser for any other username and BadPassword
\* for the configured username with another secret.
C10_Classification ==
    (login.result # "none" /\ login.password # NoPassword) =>
        login.result =
            IF login.username # authenticator.username THEN "BadUser"
            ELSE IF login.password # authenticator.password THEN "BadPassword"
            ELSE "User"

\* C11: authenticate grants the principal only for the configured username
\* together with a presented secret equal to the configured password;
\* credentials without a password are never granted.
C11_GrantNeedsSecret ==
    login.result = "User" =>
        /\ login.username = authenticator.username
        /\ login.password # NoPassword
        /\ login.password = authenticator.password

\* C12: with resume offset 0 the file upload reads from the staged path
\* holds the whole payload, written by this put alone, whatever the payload
\* length; and an Ok carries the payload length.
C12_StagedEqualsPayload ==
    \A u \in Uploads :
        req[u].start_pos = 0 =>
            /\ pc[u] \in {"upload", "sleep", "task_status"} =>
                  /\ bytes_copied[u] = req[u].len
                  /\ inode[handle[u]].len = req[u].len
            /\ submitted[u].read =>
                  /\ submitted[u].len = req[u].len
                  /\ submitted[u].writers = IF req[u].len = 0 THEN {} ELSE {u}
            /\ result[u] = "Ok" => value[u] = req[u].len
C12_Witness ==
    \E u \in Uploads :
        /\ req[u].start_pos = 0 /\ req[u].len > BufCapacity
        /\ submitted[u].read /\ result[u] = "Ok" /\ value[u] = req[u].len

\* C13: with a resume offset k > 0 the staged file is k bytes long from
\* set_len until the copy, k + n bytes long once the n bytes of the stream
\* were copied, and put counts and returns n.
C13_ResumeLengths ==
    \A u \in Uploads :
        req[u].start_pos > 0 =>
            /\ pc[u] \in {"seek", "copy"} =>
                  inode[handle[u]].len = req[u].start_pos
            /\ pc[u] \in {"upload", "sleep", "task_status"} =>
                  /\ inode[handle[u]].len = req[u].start_pos + req[u].len
                  /\ req[u].start_pos <= inode[handle[u]].len
                  /\ bytes_copied[u] = req[u].len
            /\ submitted[u].read =>
                  submitted[u].len = req[u].start_pos + req[u].len
            /\ result[u] = "Ok" => value[u] = req[u].len
C13_Witness ==
    \E u \in Uploads :
        /\ req[u].start_pos > 0 /\ req[u].len > BufCapacity
        /\ result[u] = "Ok" /\ value[u] = req[u].len
        /\ submitted[u].len = req[u].start_pos + req[u].len

\* C14: a failed startup health check ends the process with a failure exit
\* code and no listener; the listen task, the listener and every upload
\* exist only after a health check that succeeded.
C14_HealthCheckGatesListener ==
    /\ (server # "none" \/ listener # "none" \/ \E u \in Uploads : pc[u] # "idle") =>
          health = "ok"
    /\ health = "failed" =>
          /\ main_pc = "exited" /\ exit = "failure"
          /\ server = "none" /\ listener = "none"
          /\ \A u \in Uploads : pc[u] = "idle"
C14_Witness ==
    health = "failed" /\ main_pc = "exited" /\ exit = "failure" /\ listener = "none"

\* C15: once main stands at its select, a delivered SIGINT or SIGTERM leads
\* to the end of the process with the success exit code, the listener
\* closed and no put left running, wherever the uploads stood; and main
\* leaves the select only that way.
C15_SignalShutsDown ==
    /\ (main_pc = "select" /\ signal # "none") ~>
          (/\ main_pc = "exited" /\ exit = "success"
           /\ listener # "open" /\ server = "stopped"
           /\ \A u \in Uploads : ~InFlight(u))
    /\ [][main_pc = "select" /\ main_pc' # "select" =>
            main_pc' = "exited" /\ exit' = "success"]_vars
C15_Witness ==
    /\ signal # "none" /\ main_pc = "exited" /\ exit = "success"
    /\ listener = "closed"
    /\ \E u \in Uploads : pc[u] = "cancelled" /\ polls[u] >= 1 /\ dir[tmp_path[u]] = NoInode

\* C16: concurrent uploads are independent: whatever another upload does,
\* an upload that reached its submit found the file it staged there, with
\* the length it staged (resume offset plus payload), also when both
\* uploads have the same destination file name.
C16_UploadsIndependent ==
    \A u \in Uploads :
        submits[u] >= 1 =>
            /\ submitted[u].read
            /\ submitted[u].len = req[u].start_pos + req[u].len

\* C17: an upload owns its staged file: no two puts that hold an open
\* staging file have the same staging path, and the file an upload
\* submitted was written by no other upload.
C17_ExclusiveStagingPath ==
    /\ \A u, v \in Uploads :
          (u # v /\ handle[u] # NoInode /\ handle[v] # NoInode) =>
              tmp_path[u] # tmp_path[v]
    /\ \A u \in Uploads : submitted[u].read => submitted[u].writers \subseteq {u}

\* C18: a put that obtained a task id returns: its loop looks the status up
\* at most DeadlineSecs / SleepSecs + 1 times, whatever the lookups give,
\* the last of these lookups ends the put, and the clock stands at zero
\* when the loop is entered.
MaxLookups == DeadlineSecs \div SleepSecs + 1
C18_PollLoopTerminates ==
    /\ \A u \in Uploads :
          (task_id[u] # NoTask /\ pc[u] # "done") ~> pc[u] = "done"
    /\ [](\A u \in Uploads :
            /\ polls[u] <= MaxLookups
            /\ polls[u] = MaxLookups => pc[u] = "done"
            /\ (task_id[u] # NoTask /\ polls[u] = 0 /\ pc[u] = "sleep") =>
                  elapsed[u] = 0)
C18_Witness ==
    \E u \in Uploads :
        /\ polls[u] = MaxLookups /\ pc[u] = "done" /\ warned[u]
        /\ result[u] = "Err" /\ cause[u] = "timeout"

\* C19: one put stages, then submits, then polls: upload is called at most
\* once and only with the whole stream copied; a status is looked up only
\* with a task id; a lookup is issued only from the state a sleep of at
\* least SleepSecs has just led to, and a sleep starts only after the
\* submission that gave the task id or after a lookup.
C19_StageSubmitPoll ==
    /\ [](\A u \in Uploads :
            /\ submits[u] <= 1
            /\ submits[u] >= 1 => bytes_copied[u] = req[u].len
            /\ (polls[u] >= 1 \/ pc[u] \in {"sleep", "task_status"}) =>
                  (submits[u] = 1 /\ task_id[u] # NoTask)
            /\ elapsed[u] >= polls[u] * SleepSecs)
    /\ [][\A u \in Uploads :
            /\ submits'[u] # submits[u] =>
                  (pc[u] = "upload" /\ polls[u] = 0 /\ elapsed[u] = 0)
            /\ polls'[u] # polls[u] =>
                  /\ pc[u] = "task_status" /\ pc'[u] # "task_status"
                  /\ polls'[u] = polls[u] + 1
            /\ (pc'[u] = "task_status" /\ pc[u] # "task_status") =>
                  /\ pc[u] = "sleep"
                  /\ elapsed'[u] >= elapsed[u] + SleepSecs
            /\ (pc'[u] = "sleep" /\ pc[u] # "sleep") =>
                  pc[u] \in {"upload", "task_status"}]_vars
C19_Witness ==
    \E u \in Uploads :
        /\ submits[u] = 1 /\ polls[u] >= 2 /\ elapsed[u] >= polls[u] * SleepSecs
        /\ pc[u] = "done" /\ result[u] = "Ok"

\* C20: a put whose last status lookup failed with the clock past
\* DeadlineSecs has returned Err with the timeout cause, the cause of a put
\* that timed out on non-terminal statuses.
C20_LateLookupErrorIsTimeout ==
    \A u \in Uploads :
        (Tested(u) /\ ~Decoded(u).ok /\ elapsed[u] > DeadlineSecs) =>
            /\ pc[u] = "done" /\ result[u] = "Err"
            /\ cause[u] = "timeout"

====
